---- MODULE Spec2Model ----
(***************************************************************************)
(* Model of rsDungeon's main(): a linear Vulkan script that fills one      *)
(* buffer on the GPU, waits on a fence, reads the memory back, writes a    *)
(* PNG and tears everything down.  The host program is one sequential      *)
(* process (pc walks through Steps); the GPU is a second process that      *)
(* completes submitted work.                                               *)
(***************************************************************************)
EXTENDS Integers, Sequences, FiniteSets

VARIABLES pc, result, err, trace, failed, created, destroyed,
          red, green, blue, value,
          bufferSize, allocation, bound, cmd, fill, fence, mem,
          slice, file, submits

vars == <<pc, result, err, trace, failed, created, destroyed,
          red, green, blue, value,
          bufferSize, allocation, bound, cmd, fill, fence, mem,
          slice, file, submits>>

(* ---------------------------- bounds ----------------------------------- *)
\* how many values at each end of the channel range are sampled
SampleEdge == 1

(* ------------------------ program constants ---------------------------- *)
Width == 1280
Height == 720
RangeEnd == 255
Alpha == 255
SizeOfU32 == 4
ImagePath == "tmp/image.png"

Range(s) == {s[i] : i \in 1..Len(s)}

\* values gen_range(0..255) can return, sampled at the edges and the middle
ChannelSamples ==
  {c \in 0..(RangeEnd - 1) :
      c < SampleEdge \/ c >= RangeEnd - SampleEdge \/ c = 128}

(* ------------------- u32 arithmetic on 16-bit limbs -------------------- *)
\* a u32 is <<high 16 bits, low 16 bits>>
U32(x) == <<(x \div 65536) % 65536, x % 65536>>

Pow2(n) == IF n = 0 THEN 1 ELSE
           IF n = 1 THEN 2 ELSE
           IF n = 2 THEN 4 ELSE
           IF n = 3 THEN 8 ELSE
           IF n = 4 THEN 16 ELSE
           IF n = 5 THEN 32 ELSE
           IF n = 6 THEN 64 ELSE
           IF n = 7 THEN 128 ELSE
           IF n = 8 THEN 256 ELSE
           IF n = 9 THEN 512 ELSE
           IF n = 10 THEN 1024 ELSE
           IF n = 11 THEN 2048 ELSE
           IF n = 12 THEN 4096 ELSE
           IF n = 13 THEN 8192 ELSE
           IF n = 14 THEN 16384 ELSE 32768

\* v << n on u32 (bits shifted past bit 31 are lost), 0 <= n < 32
Shl(v, n) ==
  IF n >= 16
    THEN <<(v[2] * Pow2(n - 16)) % 65536, 0>>
    ELSE <<(v[1] * Pow2(n) + ((v[2] * Pow2(n)) \div 65536)) % 65536,
           (v[2] * Pow2(n)) % 65536>>

RECURSIVE BitOr16(_, _)
BitOr16(a, b) ==
  IF a = 0 THEN b
  ELSE IF b = 0 THEN a
  ELSE (IF a % 2 = 1 \/ b % 2 = 1 THEN 1 ELSE 0)
         + 2 * BitOr16(a \div 2, b \div 2)

Or32(v, w) == <<BitOr16(v[1], w[1]), BitOr16(v[2], w[2])>>

\* the four bytes of a u32 in little-endian memory order
LeBytes(v) == <<v[2] % 256, v[2] \div 256, v[1] % 256, v[1] \div 256>>

\* a mis-shifted green channel (overlaps red)
PackValueOverlap(r, g, b, a) ==
  Or32(Or32(Or32(U32(r), Shl(U32(g), 4)), Shl(U32(b), 16)), Shl(U32(a), 24))

\* red | green << 8 | blue << 16 | alpha << 24
PackValue(r, g, b, a) ==
  Or32(Or32(Or32(U32(r), Shl(U32(g), 8)), Shl(U32(b), 16)), Shl(U32(a), 24))

ValueCount == Width * Height
BufferBytes == ValueCount * SizeOfU32

(* ------------------------- the driver's answers ------------------------ *)
\* alignments a driver may report for a TRANSFER_DST buffer
Alignments == {256, 4096, 65536}

AlignUp(n, a) == ((n + a - 1) \div a) * a

\* vkGetBufferMemoryRequirements: size is the buffer size rounded up to the
\* reported alignment
MemoryRequirements(size) ==
  {[size |-> AlignUp(size, a), alignment |-> a] : a \in Alignments}

(* --------------------------- program order ----------------------------- *)
\* the cleanup block with the buffer destroyed before the allocator is dropped
StepsBufferFirst ==
  << "data", "entry_load", "create_instance", "enumerate_physical_devices",
     "create_device", "get_device_queue", "allocator_new", "create_buffer",
     "allocate", "bind_buffer_memory", "create_command_pool",
     "allocate_command_buffers", "begin_command_buffer", "cmd_fill_buffer",
     "end_command_buffer", "create_fence", "queue_submit", "wait_for_fences",
     "mapped_slice", "save_buffer", "destroy_fence", "destroy_command_pool",
     "allocator_free", "destroy_buffer", "drop_allocator", "destroy_device",
     "destroy_instance", "return_ok" >>

\* the device destroyed before the buffer
StepsDeviceFirst ==
  << "data", "entry_load", "create_instance", "enumerate_physical_devices",
     "create_device", "get_device_queue", "allocator_new", "create_buffer",
     "allocate", "bind_buffer_memory", "create_command_pool",
     "allocate_command_buffers", "begin_command_buffer", "cmd_fill_buffer",
     "end_command_buffer", "create_fence", "queue_submit", "wait_for_fences",
     "mapped_slice", "save_buffer", "destroy_fence", "destroy_command_pool",
     "allocator_free", "drop_allocator", "destroy_device", "destroy_buffer",
     "destroy_instance", "return_ok" >>

\* the command buffer submitted before recording has ended
StepsSubmitEarly ==
  << "data", "entry_load", "create_instance", "enumerate_physical_devices",
     "create_device", "get_device_queue", "allocator_new", "create_buffer",
     "allocate", "bind_buffer_memory", "create_command_pool",
     "allocate_command_buffers", "begin_command_buffer", "cmd_fill_buffer",
     "create_fence", "queue_submit", "end_command_buffer", "wait_for_fences",
     "mapped_slice", "save_buffer", "destroy_fence", "destroy_command_pool",
     "allocator_free", "drop_allocator", "destroy_buffer", "destroy_device",
     "destroy_instance", "return_ok" >>

\* the statements of main in program order
Steps ==
  << "data", "entry_load", "create_instance", "enumerate_physical_devices",
     "create_device", "get_device_queue", "allocator_new", "create_buffer",
     "allocate", "bind_buffer_memory", "create_command_pool",
     "allocate_command_buffers", "begin_command_buffer", "cmd_fill_buffer",
     "end_command_buffer", "create_fence", "queue_submit", "wait_for_fences",
     "mapped_slice", "save_buffer", "destroy_fence", "destroy_command_pool",
     "allocator_free", "drop_allocator", "destroy_buffer", "destroy_device",
     "destroy_instance", "return_ok" >>

\* wait_for_fences without its `?`
PropagatedNoWait ==
  { "entry_load", "create_instance", "enumerate_physical_devices",
    "create_device", "allocator_new", "create_buffer", "allocate",
    "create_command_pool", "allocate_command_buffers",
    "begin_command_buffer", "end_command_buffer", "create_fence",
    "mapped_slice", "allocator_free" }

\* the fallible steps whose Result is followed by `?`
Propagated ==
  { "entry_load", "create_instance", "enumerate_physical_devices",
    "create_device", "allocator_new", "create_buffer", "allocate",
    "create_command_pool", "allocate_command_buffers",
    "begin_command_buffer", "end_command_buffer", "create_fence",
    "wait_for_fences", "mapped_slice", "allocator_free" }

RECURSIVE LiveReversed(_, _, _)
LiveReversed(c, d, n) ==
  IF n = 0 THEN <<>>
  ELSE IF c[n] \notin Range(d) THEN <<c[n]>> \o LiveReversed(c, d, n - 1)
  ELSE LiveReversed(c, d, n - 1)

\* every live object is released when main returns early
ImplicitDropsAll(c, d) == LiveReversed(c, d, Len(c))

\* locals with a Drop impl that are still owned when main returns early:
\* only the allocator (ash handles have no Drop)
ImplicitDrops(c, d) ==
  IF "allocator" \in Range(c) /\ "allocator" \notin Range(d)
    THEN <<"allocator">> ELSE <<>>

(* ------------------------------ helpers -------------------------------- *)
At(s) == result = "running" /\ pc <= Len(Steps) /\ Steps[pc] = s

Advance(s) == pc' = pc + 1 /\ trace' = Append(trace, s)

\* the step returned Ok
Ok(s) == Advance(s) /\ UNCHANGED <<result, err, failed>>

\* `?` on an Err: main returns it, dropping its locals
Return(s) ==
  /\ result' = "err"
  /\ err' = s
  /\ trace' = Append(trace, s)
  /\ failed' = failed \cup {s}
  /\ destroyed' = destroyed \o ImplicitDrops(created, destroyed)
  /\ pc' = pc

\* an Err that is discarded: main goes on with the next statement
Ignore(s) ==
  /\ Advance(s)
  /\ failed' = failed \cup {s}
  /\ UNCHANGED <<result, err, destroyed>>

\* the step returned Err
Fail(s) == IF s \in Propagated THEN Return(s) ELSE Ignore(s)

NoValue == <<0, 0>>
NoAllocation == [offset |-> 0, size |-> 0]
NoFill == [offset |-> 0, size |-> 0, data |-> NoValue]
NoMem == [lo |-> 0, hi |-> 0, data |-> NoValue]
NoFile == [path |-> "", width |-> 0, height |-> 0, pixel |-> <<>>]

Init ==
  /\ pc = 1
  /\ result = "running"
  /\ err = "none"
  /\ trace = <<>>
  /\ failed = {}
  /\ created = <<>>
  /\ destroyed = <<>>
  /\ red = 0 /\ green = 0 /\ blue = 0
  /\ value = NoValue
  /\ bufferSize = 0
  /\ allocation = NoAllocation
  /\ bound = FALSE
  /\ cmd = "none"
  /\ fill = NoFill
  /\ fence = "none"
  /\ mem = NoMem
  /\ slice = -1
  /\ file = NoFile
  /\ submits = 0

colour == <<red, green, blue, value>>
gpu == <<bufferSize, allocation, bound, cmd, fill, fence, mem, submits>>
host == <<slice, file>>

(* ------------------------------ main() --------------------------------- *)
Data ==
  /\ At("data")
  /\ \E r \in ChannelSamples, g \in ChannelSamples, b \in ChannelSamples :
       /\ red' = r /\ green' = g /\ blue' = b
       /\ value' = PackValue(r, g, b, Alpha)
  /\ Ok("data")
  /\ UNCHANGED <<created, destroyed, gpu, host>>

EntryLoad ==
  /\ At("entry_load")
  /\ \/ Ok("entry_load") /\ UNCHANGED destroyed
     \/ Fail("entry_load")
  /\ UNCHANGED <<created, colour, gpu, host>>

CreateInstance ==
  /\ At("create_instance")
  /\ \/ /\ Ok("create_instance")
        /\ created' = Append(created, "instance")
        /\ UNCHANGED destroyed
     \/ Fail("create_instance") /\ UNCHANGED created
  /\ UNCHANGED <<colour, gpu, host>>

\* an Err, or an empty list turned into an error by .context(..)?
EnumeratePhysicalDevices ==
  /\ At("enumerate_physical_devices")
  /\ \/ Ok("enumerate_physical_devices") /\ UNCHANGED destroyed
     \/ Fail("enumerate_physical_devices")
  /\ UNCHANGED <<created, colour, gpu, host>>

CreateDevice ==
  /\ At("create_device")
  /\ \/ /\ Ok("create_device")
        /\ created' = Append(created, "device")
        /\ UNCHANGED destroyed
     \/ Fail("create_device") /\ UNCHANGED created
  /\ UNCHANGED <<colour, gpu, host>>

GetDeviceQueue ==
  /\ At("get_device_queue")
  /\ Ok("get_device_queue")
  /\ UNCHANGED <<created, destroyed, colour, gpu, host>>

AllocatorNew ==
  /\ At("allocator_new")
  /\ \/ /\ Ok("allocator_new")
        /\ created' = Append(created, "allocator")
        /\ UNCHANGED destroyed
     \/ Fail("allocator_new") /\ UNCHANGED created
  /\ UNCHANGED <<colour, gpu, host>>

CreateBuffer ==
  /\ At("create_buffer")
  /\ \/ /\ Ok("create_buffer")
        /\ created' = Append(created, "buffer")
        /\ bufferSize' = BufferBytes
        /\ UNCHANGED destroyed
     \/ Fail("create_buffer") /\ UNCHANGED <<created, bufferSize>>
  /\ UNCHANGED <<colour, allocation, bound, cmd, fill, fence, mem, submits,
                 host>>

\* get_buffer_memory_requirements, then allocator.allocate(..)?; the first
\* allocation of a fresh allocator sits at offset 0 of its memory block
Allocate ==
  /\ At("allocate")
  /\ \/ /\ Ok("allocate")
        /\ \E req \in MemoryRequirements(bufferSize) :
             allocation' = [offset |-> 0, size |-> req.size]
        /\ created' = Append(created, "allocation")
        /\ UNCHANGED destroyed
     \/ Fail("allocate") /\ UNCHANGED <<created, allocation>>
  /\ UNCHANGED <<colour, bufferSize, bound, cmd, fill, fence, mem, submits,
                 host>>

BindBufferMemory ==
  /\ At("bind_buffer_memory")
  /\ \/ Ok("bind_buffer_memory") /\ bound' = TRUE /\ UNCHANGED destroyed
     \/ Fail("bind_buffer_memory") /\ UNCHANGED bound
  /\ UNCHANGED <<created, colour, bufferSize, allocation, cmd, fill, fence,
                 mem, submits, host>>

CreateCommandPool ==
  /\ At("create_command_pool")
  /\ \/ /\ Ok("create_command_pool")
        /\ created' = Append(created, "command_pool")
        /\ UNCHANGED destroyed
     \/ Fail("create_command_pool") /\ UNCHANGED created
  /\ UNCHANGED <<colour, gpu, host>>

AllocateCommandBuffers ==
  /\ At("allocate_command_buffers")
  /\ \/ Ok("allocate_command_buffers") /\ cmd' = "initial"
        /\ UNCHANGED destroyed
     \/ Fail("allocate_command_buffers") /\ UNCHANGED cmd
  /\ UNCHANGED <<created, colour, bufferSize, allocation, bound, fill, fence,
                 mem, submits, host>>

BeginCommandBuffer ==
  /\ At("begin_command_buffer")
  /\ \/ Ok("begin_command_buffer") /\ cmd' = "recording"
        /\ UNCHANGED destroyed
     \/ Fail("begin_command_buffer") /\ UNCHANGED cmd
  /\ UNCHANGED <<created, colour, bufferSize, allocation, bound, fill, fence,
                 mem, submits, host>>

\* the recorded fill takes its range from the allocation
CmdFillBuffer ==
  /\ At("cmd_fill_buffer")
  /\ Ok("cmd_fill_buffer")
  /\ fill' = [offset |-> allocation.offset, size |-> allocation.size,
              data |-> value]
  /\ UNCHANGED <<created, destroyed, colour, bufferSize, allocation, bound,
                 cmd, fence, mem, submits, host>>

EndCommandBuffer ==
  /\ At("end_command_buffer")
  /\ \/ Ok("end_command_buffer") /\ cmd' = "executable"
        /\ UNCHANGED destroyed
     \/ Fail("end_command_buffer") /\ UNCHANGED cmd
  /\ UNCHANGED <<created, colour, bufferSize, allocation, bound, fill, fence,
                 mem, submits, host>>

CreateFence ==
  /\ At("create_fence")
  /\ \/ /\ Ok("create_fence")
        /\ created' = Append(created, "fence")
        /\ fence' = "unsignalled"
        /\ UNCHANGED destroyed
     \/ Fail("create_fence") /\ UNCHANGED <<created, fence>>
  /\ UNCHANGED <<colour, bufferSize, allocation, bound, cmd, fill, mem,
                 submits, host>>

QueueSubmit ==
  /\ At("queue_submit")
  /\ \/ /\ Ok("queue_submit")
        /\ cmd' = "pending"
        /\ submits' = submits + 1
        /\ UNCHANGED destroyed
     \/ Fail("queue_submit") /\ UNCHANGED <<cmd, submits>>
  /\ UNCHANGED <<created, colour, bufferSize, allocation, bound, fill, fence,
                 mem, host>>

\* returns Ok only for a signalled fence (timeout u64::MAX)
WaitForFences ==
  /\ At("wait_for_fences")
  /\ \/ fence = "signalled" /\ Ok("wait_for_fences") /\ UNCHANGED destroyed
     \/ Fail("wait_for_fences")
  /\ UNCHANGED <<created, colour, gpu, host>>

\* the slice spans the whole allocation
MappedSlice ==
  /\ At("mapped_slice")
  /\ \/ Ok("mapped_slice") /\ slice' = allocation.size
        /\ UNCHANGED destroyed
     \/ Fail("mapped_slice") /\ UNCHANGED slice
  /\ UNCHANGED <<created, colour, gpu, file>>

\* the pixels a width x height Rgba8 image takes from the slice: the fill
\* value's bytes when the filled range covers them all
Pixels ==
  IF mem.lo <= 0 /\ mem.hi >= Width * Height * SizeOfU32
    THEN LeBytes(mem.data) ELSE <<>>

\* image::save_buffer: writes the file when the slice has exactly
\* width*height*4 bytes; otherwise it fails or panics.  Its Result is dropped.
SaveBuffer ==
  /\ At("save_buffer")
  /\ \/ /\ slice = Width * Height * SizeOfU32
        /\ Ok("save_buffer")
        /\ file' = [path |-> ImagePath, width |-> Width, height |-> Height,
                    pixel |-> Pixels]
        /\ UNCHANGED destroyed
     \/ Fail("save_buffer") /\ UNCHANGED file
     \/ /\ slice # Width * Height * SizeOfU32
        /\ result' = "panic"
        /\ trace' = Append(trace, "save_buffer")
        /\ destroyed' = destroyed \o ImplicitDrops(created, destroyed)
        /\ UNCHANGED <<pc, err, failed, file>>
  /\ UNCHANGED <<created, colour, gpu, slice>>

\* a destroy call: returns nothing, the object is gone afterwards
Destroy(s, obj) ==
  /\ Ok(s)
  /\ destroyed' = Append(destroyed, obj)
  /\ UNCHANGED <<created, colour, gpu, host>>

DestroyFence ==
  /\ At("destroy_fence")
  /\ Destroy("destroy_fence", "fence")

DestroyCommandPool ==
  /\ At("destroy_command_pool")
  /\ Destroy("destroy_command_pool", "command_pool")

AllocatorFree ==
  /\ At("allocator_free")
  /\ \/ Ok("allocator_free") /\ destroyed' = Append(destroyed, "allocation")
     \/ Fail("allocator_free")
  /\ UNCHANGED <<created, colour, gpu, host>>

DropAllocator ==
  /\ At("drop_allocator")
  /\ Destroy("drop_allocator", "allocator")

DestroyBuffer ==
  /\ At("destroy_buffer")
  /\ Destroy("destroy_buffer", "buffer")

DestroyDevice ==
  /\ At("destroy_device")
  /\ Destroy("destroy_device", "device")

DestroyInstance ==
  /\ At("destroy_instance")
  /\ Destroy("destroy_instance", "instance")

ReturnOk ==
  /\ At("return_ok")
  /\ Advance("return_ok")
  /\ result' = "ok"
  /\ destroyed' = destroyed \o ImplicitDrops(created, destroyed)
  /\ UNCHANGED <<err, failed, created, colour, gpu, host>>

(* ------------------------------- the GPU ------------------------------- *)
\* what executing the recorded fill leaves in the allocation's memory.
\* A fill of an unbound buffer, or one that runs past the end of the buffer,
\* is invalid usage: any of the listed outcomes may happen.
FillOutcomes ==
  IF ~bound
    THEN {mem}
  ELSE IF fill.offset + fill.size <= bufferSize
    THEN {[lo |-> allocation.offset + fill.offset,
           hi |-> allocation.offset + fill.offset + fill.size,
           data |-> fill.data]}
  ELSE {[lo |-> allocation.offset + fill.offset,
         hi |-> allocation.offset + fill.offset + fill.size,
         data |-> fill.data],
        [lo |-> allocation.offset + fill.offset,
         hi |-> allocation.offset + bufferSize,
         data |-> fill.data],
        mem}

\* the queue finishes the submitted command buffer and signals the fence
GpuComplete ==
  /\ cmd = "pending"
  /\ cmd' = "done"
  /\ fence' = "signalled"
  /\ \E m \in FillOutcomes : mem' = m
  /\ UNCHANGED <<pc, result, err, trace, failed, created, destroyed, colour,
                 bufferSize, allocation, bound, fill, submits, host>>

Main ==
  \/ Data \/ EntryLoad \/ CreateInstance \/ EnumeratePhysicalDevices
  \/ CreateDevice \/ GetDeviceQueue \/ AllocatorNew \/ CreateBuffer
  \/ Allocate \/ BindBufferMemory \/ CreateCommandPool
  \/ AllocateCommandBuffers \/ BeginCommandBuffer \/ CmdFillBuffer
  \/ EndCommandBuffer \/ CreateFence \/ QueueSubmit \/ WaitForFences
  \/ MappedSlice \/ SaveBuffer \/ DestroyFence \/ DestroyCommandPool
  \/ AllocatorFree \/ DropAllocator \/ DestroyBuffer \/ DestroyDevice
  \/ DestroyInstance \/ ReturnOk

Next == Main \/ GpuComplete

Spec == Init /\ [][Next]_vars

\* every call of main returns, except that wait_for_fences need not return
\* an error: it returns Ok once the fence is signalled and blocks until then
MainReturns ==
  Main /\ (pc <= Len(Steps) /\ Steps[pc] = "wait_for_fences" => failed' = failed)

\* the host thread keeps running and the GPU completes submitted work
FairSpec ==
  Init /\ [][Next]_vars /\ WF_vars(MainReturns) /\ WF_vars(GpuComplete)

(* ----------------------------- properties ------------------------------ *)
InTrace(s) == s \in Range(trace)

\* position of x in sequence q, 0 when absent
Pos(x, q) == IF x \in Range(q) THEN CHOOSE i \in 1..Len(q) : q[i] = x ELSE 0

Before(a, b, q) == Pos(a, q) > 0 /\ Pos(b, q) > 0 /\ Pos(a, q) < Pos(b, q)

RECURSIVE Reverse(_)
Reverse(q) == IF q = <<>> THEN <<>> ELSE Append(Reverse(Tail(q)), Head(q))

\* C1: on a successful exit the image written is Width x Height, every pixel
\* is the fill value's four bytes, the recorded fill covers exactly the
\* buffer's Width*Height*4 bytes and the slice given to the encoder has
\* exactly that many bytes.
C1_ImageIsUniformFill ==
  result = "ok" =>
    /\ file = [path |-> ImagePath, width |-> Width, height |-> Height,
               pixel |-> LeBytes(value)]
    /\ fill.offset = 0
    /\ fill.size = Width * Height * SizeOfU32
    /\ slice = Width * Height * SizeOfU32

\* C2: when a fallible step fails, main returns that error and no later step
\* runs: the failed step is the only failure and the last step executed.
C2_FirstErrorAborts ==
  failed # {} =>
    /\ result = "err"
    /\ failed = {err}
    /\ trace[Len(trace)] = err

\* C3: the buffer is read back (mapped_slice, then the PNG encoding) only
\* after the fence was signalled by completion of the one submitted fill;
\* never while the work is pending or was not submitted.
C3_ReadAfterFence ==
  (InTrace("mapped_slice") \/ InTrace("save_buffer")
      \/ slice # -1 \/ file # NoFile) =>
    /\ fence = "signalled"
    /\ cmd = "done"
    /\ submits = 1
    /\ "queue_submit" \notin failed
    /\ Before("queue_submit", "wait_for_fences", trace)
    /\ Before("wait_for_fences", "mapped_slice", trace)

C3_Witness == InTrace("save_buffer") /\ file # NoFile /\ result = "running"

\* C4 (as claimed): on a successful run the objects are destroyed in the
\* reverse of their creation order.
C4_ReverseCreationOrder ==
  result = "ok" =>
    /\ created = <<"instance", "device", "allocator", "buffer", "allocation",
                   "command_pool", "fence">>
    /\ destroyed = Reverse(created)

\* C4 (amended): on a successful run the objects are created in the order
\* instance, device, allocator, buffer, allocation, command pool, fence and
\* destroyed exactly once each in the order fence, command pool, allocation,
\* allocator, buffer, device, instance: the reverse of creation except that
\* the allocator goes before the buffer.
C4_TeardownOrder ==
  result = "ok" =>
    /\ created = <<"instance", "device", "allocator", "buffer", "allocation",
                   "command_pool", "fence">>
    /\ destroyed = <<"fence", "command_pool", "allocation", "allocator",
                     "buffer", "device", "instance">>

C4_Witness == result = "ok" /\ Len(destroyed) = 7

\* C5: whenever main returns Ok the PNG has been written at tmp/image.png.
C5_OkImpliesImage ==
  result = "ok" => file # NoFile /\ file.path = ImagePath

\* C6: a successful run executes each step exactly once in the listed order,
\* followed by the teardown; in any run no step repeats, the command buffer
\* is submitted only after end_command_buffer succeeded and at most once.
C6Order ==
  << "entry_load", "create_instance", "enumerate_physical_devices",
     "create_device", "get_device_queue", "allocator_new", "create_buffer",
     "allocate", "bind_buffer_memory", "create_command_pool",
     "allocate_command_buffers", "begin_command_buffer", "cmd_fill_buffer",
     "end_command_buffer", "create_fence", "queue_submit", "wait_for_fences",
     "mapped_slice", "save_buffer" >>

C6Teardown ==
  { "destroy_fence", "destroy_command_pool", "allocator_free",
    "drop_allocator", "destroy_buffer", "destroy_device",
    "destroy_instance" }

C6_LinearSequence ==
  /\ \A i, j \in 1..Len(trace) : trace[i] = trace[j] => i = j
  /\ submits <= 1
  /\ InTrace("queue_submit") =>
       /\ Before("end_command_buffer", "queue_submit", trace)
       /\ "end_command_buffer" \notin failed
  /\ cmd \in {"pending", "done"} => submits = 1
  /\ result = "ok" =>
       /\ Len(trace) = 1 + Len(C6Order) + Cardinality(C6Teardown) + 1
       /\ trace[1] = "data"
       /\ SubSeq(trace, 2, 1 + Len(C6Order)) = C6Order
       /\ {trace[i] : i \in (2 + Len(C6Order))..(Len(trace) - 1)} = C6Teardown
       /\ trace[Len(trace)] = "return_ok"
       /\ fill.data = value

C6_Witness == result = "ok" /\ submits = 1 /\ cmd = "done"

\* C7: for the drawn channels (at most 254) and alpha 255 the packed u32 has
\* the little-endian bytes (red, green, blue, 255), nothing is lost to 32-bit
\* overflow, and the buffer size 1280*720*4 = 3686400 fits (in 32 bits, so in
\* a u64).
C7_ValuePacking ==
  InTrace("data") =>
    /\ red < RangeEnd /\ green < RangeEnd /\ blue < RangeEnd
    /\ LeBytes(value) = <<red, green, blue, 255>>
    /\ value[1] = blue + 256 * Alpha
    /\ value[2] = red + 256 * green
    /\ BufferBytes = 3686400
    /\ BufferBytes \div 65536 < 65536
    /\ bufferSize \in {0, 3686400}

C7_Witness ==
  /\ red = RangeEnd - 1 /\ green = RangeEnd - 1 /\ blue = 0
  /\ bufferSize = 3686400

\* C8: every run terminates (error exit, panic or successful exit), given
\* that the GPU completes submitted work.
C8_Terminates == <>(result # "running")

\* what each statement of main touches
Uses(s) ==
  CASE s = "enumerate_physical_devices" -> {"instance"}
    [] s = "create_device" -> {"instance"}
    [] s = "get_device_queue" -> {"device"}
    [] s = "allocator_new" -> {"instance", "device"}
    [] s = "create_buffer" -> {"device"}
    [] s = "allocate" -> {"device", "buffer", "allocator"}
    [] s = "bind_buffer_memory" -> {"device", "buffer", "allocation"}
    [] s = "create_command_pool" -> {"device"}
    [] s = "allocate_command_buffers" -> {"device", "command_pool"}
    [] s = "begin_command_buffer" -> {"device", "command_pool"}
    [] s = "cmd_fill_buffer" ->
         {"device", "command_pool", "buffer", "allocation"}
    [] s = "end_command_buffer" -> {"device", "command_pool"}
    [] s = "create_fence" -> {"device"}
    [] s = "queue_submit" -> {"device", "command_pool", "fence"}
    [] s = "wait_for_fences" -> {"device", "fence"}
    [] s = "mapped_slice" -> {"allocation"}
    [] s = "save_buffer" -> {"allocation"}
    [] s = "destroy_fence" -> {"device", "fence"}
    [] s = "destroy_command_pool" -> {"device", "command_pool"}
    [] s = "allocator_free" -> {"allocator", "allocation", "device"}
    [] s = "drop_allocator" -> {"allocator", "device"}
    [] s = "destroy_buffer" -> {"device", "buffer"}
    [] s = "destroy_device" -> {"device"}
    [] s = "destroy_instance" -> {"instance"}
    [] OTHER -> {}

\* the statement about to run touches no destroyed object, nothing is
\* destroyed twice, the device goes after its children and the instance
\* after the device
LifetimesRespected ==
  /\ result = "running" /\ pc <= Len(Steps) =>
       Uses(Steps[pc]) \cap Range(destroyed) = {}
  /\ \A i, j \in 1..Len(destroyed) : destroyed[i] = destroyed[j] => i = j
  /\ Range(destroyed) \subseteq Range(created)
  /\ "device" \in Range(destroyed) =>
       \A o \in {"fence", "command_pool", "buffer", "allocator",
                 "allocation"} : Before(o, "device", destroyed)
  /\ "instance" \in Range(destroyed) => Before("device", "instance", destroyed)

\* C9 (as claimed): lifetimes are respected and, in every run, the
\* allocation is freed before the allocator is dropped.
C9_Lifetimes ==
  /\ LifetimesRespected
  /\ ("allocator" \in Range(destroyed) /\ "allocation" \in Range(created)) =>
       Before("allocation", "allocator", destroyed)

\* C9 (amended): lifetimes are respected; the allocation is freed before the
\* allocator is dropped whenever the allocator is dropped by the cleanup
\* block's drop(allocator).  On an early return or panic after the
\* allocation was made, the allocator is dropped with the allocation never
\* freed.
C9_LifetimesCleanup ==
  /\ LifetimesRespected
  /\ InTrace("drop_allocator") => Before("allocation", "allocator", destroyed)
  /\ (result \in {"err", "panic"} /\ "allocation" \in Range(created)) =>
       /\ "allocator" \in Range(destroyed)
       /\ "allocation" \notin Range(destroyed)

C9_Witness ==
  /\ InTrace("destroy_instance")
  /\ Before("allocation", "allocator", destroyed)
  /\ Before("device", "instance", destroyed)

\* C10: on an error exit from a step before the cleanup block no explicit
\* destroy call has run and every object created so far, other than the
\* allocator that main's return drops, is left undestroyed; when
\* allocator.free fails the fence and command pool are destroyed and the
\* buffer, device and instance are not.
C10_ErrorExitLeaks ==
  /\ (result = "err" /\ err # "allocator_free") =>
       /\ Range(trace) \cap C6Teardown = {}
       /\ Range(destroyed) \subseteq {"allocator"}
  /\ (result = "err" /\ err = "allocator_free") =>
       /\ {"fence", "command_pool"} \subseteq Range(destroyed)
       /\ Range(destroyed) \cap {"buffer", "device", "instance",
                                 "allocation"} = {}
       /\ Range(trace) \cap C6Teardown =
            {"destroy_fence", "destroy_command_pool", "allocator_free"}

C10_Witness ==
  /\ result = "err" /\ err = "allocator_free"
  /\ Len(created) = 7

====
